---- MODULE Spec2Model ----
(***************************************************************************)
(* A model of tox's TerminalWriter (src/src/tox/terminalwriter.py): the    *)
(* line tracking and markup of write, the sink fallback chain, the         *)
(* fullwidth property and the rule lines drawn by sep.                     *)
(*                                                                         *)
(* Text is a sequence of characters, each character a string naming one    *)
(* code point: "e" (U+0065), "acute" (U+0301, combining), "eacute"         *)
(* (U+00E9), "han" (U+6F22), "LF" (U+000A), "ESC" (U+001B) and a few       *)
(* printable ASCII characters.  Bytes are sequences of integers.           *)
(***************************************************************************)
EXTENDS Integers, Sequences, FiniteSets, TLC

VARIABLES
    isWindows,      \* IS_WINDOWS, fixed by the platform
    hasmarkup,      \* self.hasmarkup
    sinkEncoding,   \* self._file.encoding: "none", "ascii" or "utf-8"
    chars,          \* self._current_line.chars
    width,          \* self._current_line.width
    terminal_width, \* self._terminal_width: [set, value]; set = hasattr(...)
    columns,        \* environ['COLUMNS']: [set, text]
    termsize,       \* what the OS terminal-size query does: [kind, cols]
    last,           \* the last call: its arguments, outcome and sink events
    pieces,         \* history: what each write call since the last line
                    \* terminator added after it, one piece per call
                    \* (kept while no call has raised)
    allok           \* history: no call has raised so far

vars == <<isWindows, hasmarkup, sinkEncoding, chars, width, terminal_width,
          columns, termsize, last, pieces, allok>>

-----------------------------------------------------------------------------
(* Bounds of the model.                                                    *)

MaxMsgLen == 2      \* longest message of the line-tracking specification
MaxChars == 3       \* cap on current_line.chars
MaxWidth == 10      \* largest explicit fullwidth argument / override of sep
MaxTitle == 3       \* longest title of sep

(* Constants of the program.                                               *)

DefaultColumns == 80
MinReliableWidth == 40
SaneWidth == 80

-----------------------------------------------------------------------------
(* Characters.                                                             *)

Ord(c) ==
    CASE c = "LF" -> 10
      [] c = "ESC" -> 27
      [] c = " " -> 32
      [] c = "-" -> 45
      [] c = "0" -> 48 [] c = "1" -> 49 [] c = "2" -> 50 [] c = "3" -> 51
      [] c = "4" -> 52 [] c = "5" -> 53 [] c = "6" -> 54 [] c = "7" -> 55
      [] c = "8" -> 56 [] c = "9" -> 57
      [] c = "=" -> 61
      [] c = "X" -> 88
      [] c = "[" -> 91
      [] c = "_" -> 95
      [] c = "e" -> 101
      [] c = "m" -> 109
      [] c = "x" -> 120
      [] c = "eacute" -> 233
      [] c = "acute" -> 769
      [] c = "han" -> 28450

\* unicodedata.east_asian_width(c)
east_asian_width(c) ==
    CASE c = "han" -> "W"
      [] c \in {"acute", "eacute"} -> "A"
      [] c \in {"LF", "ESC"} -> "N"
      [] OTHER -> "Na"

\* char_width.get(category, 1)
char_width(category) ==
    CASE category = "A" -> 1
      [] category = "F" -> 2
      [] category = "H" -> 1
      [] category = "N" -> 1
      [] category = "Na" -> 1
      [] category = "W" -> 2
      [] OTHER -> 1

\* unicodedata.normalize('NFC', s): e followed by a combining acute composes
\* to e-acute; nothing else of this alphabet composes or decomposes
normalize(s) ==
    LET composed ==
            [i \in 1..Len(s) |->
                IF s[i] = "e" /\ i < Len(s) /\ s[i + 1] = "acute" THEN "eacute"
                ELSE IF s[i] = "acute" /\ i > 1 /\ s[i - 1] = "e" THEN "consumed"
                ELSE s[i]]
        Kept(c) == c # "consumed"
    IN SelectSeq(composed, Kept)

\* sum(char_width.get(east_asian_width(c), 1) for c in s)
SumWidths(s) ==
    LET Of(k) == {i \in 1..Len(s) : char_width(east_asian_width(s[i])) = k}
    IN Cardinality(Of(1)) + 2 * Cardinality(Of(2))

\* sum(char_width.get(east_asian_width(c), 1) for c in normalize('NFC', s))
display_width(s) == SumWidths(normalize(s))

\* msg.rsplit('\n', 1)[-1]
rsplit_last(msg) ==
    LET breaks == {i \in 1..Len(msg) : msg[i] = "LF"}
    IN IF breaks = {} THEN msg
       ELSE LET k == CHOOSE i \in breaks : \A j \in breaks : j <= i
            IN SubSeq(msg, k + 1, Len(msg))

HasNewline(msg) == \E i \in 1..Len(msg) : msg[i] = "LF"

-----------------------------------------------------------------------------
(* write: the line tracking.                                               *)

\* A defect of the kind the tracking could have: the fragment is always added.
update_line_always_adds(cl, msg) ==
    LET current_line == rsplit_last(msg)
    IN [chars |-> cl.chars + Len(current_line),
        width |-> cl.width + display_width(current_line)]

\* the update of self._current_line by a non-empty message
update_line(cl, msg) ==
    LET current_line == rsplit_last(msg)
        w == display_width(current_line)
        length == Len(current_line)
    IN IF HasNewline(msg)
       THEN [chars |-> length, width |-> w]
       ELSE [chars |-> cl.chars + length, width |-> cl.width + w]

-----------------------------------------------------------------------------
(* write: the markup.  kw is the keyword dictionary in iteration order, a  *)
(* sequence of [name, value].                                              *)

esctable ==
    [black |-> 30, red |-> 31, green |-> 32, yellow |-> 33,
     blue |-> 34, purple |-> 35, cyan |-> 36, white |-> 37,
     Black |-> 40, Red |-> 41, Green |-> 42, Yellow |-> 43,
     Blue |-> 44, Purple |-> 45, Cyan |-> 46, White |-> 47,
     bold |-> 1, light |-> 2, blink |-> 5, invert |-> 7]

Digit(d) == <<"0", "1", "2", "3", "4", "5", "6", "7", "8", "9">>[d + 1]

RECURSIVE Decimal(_)
\* '%s' % cod, for cod >= 0
Decimal(n) ==
    IF n < 10 THEN <<Digit(n)>>
    ELSE Decimal(n \div 10) \o <<Digit(n % 10)>>

\* '\x1b[%sm' % cod
EscapeCode(cod) == <<"ESC", "[">> \o Decimal(cod) \o <<"m">>

RECURSIVE JoinCodes(_)
\* ''.join(['\x1b[%sm' % cod for cod in esc])
JoinCodes(esc) ==
    IF esc = <<>> THEN <<>>
    ELSE EscapeCode(Head(esc)) \o JoinCodes(Tail(esc))

RECURSIVE ScanFlags(_, _)
\* the loop over kw: raises at the first name that is not in the table,
\* collects the codes of the truthy flags before it
ScanFlags(kw, esc) ==
    IF kw = <<>> THEN [raised |-> FALSE, esc |-> esc]
    ELSE IF Head(kw).name \notin DOMAIN esctable
         THEN [raised |-> TRUE, esc |-> esc]
         ELSE ScanFlags(Tail(kw),
                        IF Head(kw).value
                        THEN Append(esc, esctable[Head(kw).name])
                        ELSE esc)

RECURSIVE ScanTruthyFlags(_, _)
ScanTruthyFlags(kw, esc) ==
    IF kw = <<>> THEN [raised |-> FALSE, esc |-> esc]
    ELSE IF ~Head(kw).value THEN ScanTruthyFlags(Tail(kw), esc)
         ELSE IF Head(kw).name \notin DOMAIN esctable
              THEN [raised |-> TRUE, esc |-> esc]
              ELSE ScanTruthyFlags(Tail(kw),
                                   Append(esc, esctable[Head(kw).name]))

\* A defect of the kind the markup could have: a falsy flag is skipped
\* before its name is looked up.
markup_checks_truthy_only(hm, msg, kw) ==
    IF hm /\ kw # <<>>
    THEN LET scan == ScanTruthyFlags(kw, <<>>)
         IN IF scan.raised THEN [raised |-> TRUE, msg |-> msg]
            ELSE IF scan.esc # <<>>
                 THEN [raised |-> FALSE,
                       msg |-> JoinCodes(scan.esc) \o msg \o EscapeCode(0)]
                 ELSE [raised |-> FALSE, msg |-> msg]
    ELSE [raised |-> FALSE, msg |-> msg]

\* A defect of the kind the markup could have: the reset sequence is left out.
markup_without_reset(hm, msg, kw) ==
    IF hm /\ kw # <<>>
    THEN LET scan == ScanFlags(kw, <<>>)
         IN IF scan.raised THEN [raised |-> TRUE, msg |-> msg]
            ELSE IF scan.esc # <<>>
                 THEN [raised |-> FALSE, msg |-> JoinCodes(scan.esc) \o msg]
                 ELSE [raised |-> FALSE, msg |-> msg]
    ELSE [raised |-> FALSE, msg |-> msg]

\* the markup block of write: raised = ValueError("unknown markup: ...")
markup(hm, msg, kw) ==
    IF hm /\ kw # <<>>
    THEN LET scan == ScanFlags(kw, <<>>)
         IN IF scan.raised THEN [raised |-> TRUE, msg |-> msg]
            ELSE IF scan.esc # <<>>
                 THEN [raised |-> FALSE,
                       msg |-> JoinCodes(scan.esc) \o msg \o EscapeCode(0)]
                 ELSE [raised |-> FALSE, msg |-> msg]
    ELSE [raised |-> FALSE, msg |-> msg]

-----------------------------------------------------------------------------
(* write: the sink.                                                        *)

\* one character in UTF-8
Utf8(c) ==
    LET o == Ord(c)
    IN IF o < 128 THEN <<o>>
       ELSE IF o < 2048 THEN <<192 + (o \div 64), 128 + (o % 64)>>
            ELSE <<224 + (o \div 4096), 128 + ((o \div 64) % 64), 128 + (o % 64)>>

RECURSIVE Utf8All(_)
Utf8All(s) == IF s = <<>> THEN <<>> ELSE Utf8(Head(s)) \o Utf8All(Tail(s))

RECURSIVE AsciiAll(_)
AsciiAll(s) == IF s = <<>> THEN <<>> ELSE <<Ord(Head(s))>> \o AsciiAll(Tail(s))

IsAscii(s) == \A i \in 1..Len(s) : Ord(s[i]) < 128

\* msg.encode(encoding): raised = UnicodeEncodeError
encode(s, encoding) ==
    IF encoding = "utf-8" THEN [raised |-> FALSE, bytes |-> Utf8All(s)]
    ELSE IF IsAscii(s) THEN [raised |-> FALSE, bytes |-> AsciiAll(s)]
         ELSE [raised |-> TRUE, bytes |-> <<>>]

\* Sink events of a call.
TextWrite(data, ok) == [ev |-> "write", kind |-> "text", text |-> data, bytes |-> <<>>, ok |-> ok]
BytesWrite(data, ok) == [ev |-> "write", kind |-> "bytes", text |-> <<>>, bytes |-> data, ok |-> ok]
Flush == [ev |-> "flush", kind |-> "none", text |-> <<>>, bytes |-> <<>>, ok |-> TRUE]

\* What the sink does with the calls made on it: beh.direct is the outcome of
\* write(text), beh.raw the outcome of the write(bytes) that may follow an
\* encoding error.
SinkBehaviours ==
    {b \in [direct : {"ok", "UnicodeEncodeError", "IOError"},
            raw : {"ok", "UnicodeEncodeError", "TypeError"}] :
        b.direct # "UnicodeEncodeError" => b.raw = "ok"}

\* A defect of the kind the sink code could have: the encoded-bytes branch
\* returns without flushing.
emit_encoded_without_flush(encoding, data, beh) ==
    IF beh.direct = "ok"
    THEN [result |-> "ok", log |-> <<TextWrite(data, TRUE), Flush>>]
    ELSE IF beh.direct # "UnicodeEncodeError"
    THEN [result |-> beh.direct, log |-> <<TextWrite(data, FALSE)>>]
    ELSE LET enc == encode(data, encoding)
         IN IF encoding # "none" /\ ~enc.raised /\ beh.raw = "ok"
            THEN [result |-> "ok",
                  log |-> <<TextWrite(data, FALSE), BytesWrite(enc.bytes, TRUE)>>]
            ELSE IF encoding # "none" /\ ~enc.raised /\ beh.raw # "UnicodeEncodeError"
            THEN [result |-> beh.raw,
                  log |-> <<TextWrite(data, FALSE), BytesWrite(enc.bytes, FALSE)>>]
            ELSE [result |-> "NameError",
                  log |-> IF encoding # "none" /\ ~enc.raised
                          THEN <<TextWrite(data, FALSE), BytesWrite(enc.bytes, FALSE)>>
                          ELSE <<TextWrite(data, FALSE)>>]

\* the try block of write and the flush after it
emit(encoding, data, beh) ==
    IF beh.direct = "ok"
    THEN \* self._file.write(msg); self._file.flush()
         [result |-> "ok", log |-> <<TextWrite(data, TRUE), Flush>>]
    ELSE IF beh.direct # "UnicodeEncodeError"
    THEN \* any other exception of the sink propagates
         [result |-> beh.direct, log |-> <<TextWrite(data, FALSE)>>]
    ELSE LET enc == encode(data, encoding)
         IN IF encoding # "none" /\ ~enc.raised /\ beh.raw = "ok"
            THEN \* else: self._file.flush(); return
                 [result |-> "ok",
                  log |-> <<TextWrite(data, FALSE), BytesWrite(enc.bytes, TRUE), Flush>>]
            ELSE IF encoding # "none" /\ ~enc.raised /\ beh.raw # "UnicodeEncodeError"
            THEN \* the bytes write raises something the except does not catch
                 [result |-> beh.raw,
                  log |-> <<TextWrite(data, FALSE), BytesWrite(enc.bytes, FALSE)>>]
            ELSE \* fallback: markupmsg is not a name of this scope, the
                 \* statement raises NameError before anything is written
                 [result |-> "NameError",
                  log |-> IF encoding # "none" /\ ~enc.raised
                          THEN <<TextWrite(data, FALSE), BytesWrite(enc.bytes, FALSE)>>
                          ELSE <<TextWrite(data, FALSE)>>]

\* TerminalWriter.write(msg, **kw) on a writer whose current line is cl:
\* the new current line, the outcome and the sink events
write(cl, hm, encoding, msg, kw, beh) ==
    IF msg = <<>>
    THEN [chars |-> cl.chars, width |-> cl.width, result |-> "ok", log |-> <<>>]
    ELSE LET line == update_line(cl, msg)
             mk == markup(hm, msg, kw)
             out == emit(encoding, mk.msg, beh)
         IN IF mk.raised
            THEN [chars |-> line.chars, width |-> line.width,
                  result |-> "ValueError", log |-> <<>>]
            ELSE [chars |-> line.chars, width |-> line.width,
                  result |-> out.result, log |-> out.log]

-----------------------------------------------------------------------------
(* The fullwidth property.                                                 *)

IsDigit(c) == c \in {"0", "1", "2", "3", "4", "5", "6", "7", "8", "9"}

RECURSIVE DigitsValue(_)
DigitsValue(s) ==
    IF s = <<>> THEN 0
    ELSE 10 * DigitsValue(SubSeq(s, 1, Len(s) - 1)) + (Ord(s[Len(s)]) - 48)

IsDigits(s) == s # <<>> /\ \A i \in 1..Len(s) : IsDigit(s[i])

\* int(text): raised = ValueError
ParseInt(s) ==
    IF IsDigits(s) THEN [raised |-> FALSE, value |-> DigitsValue(s)]
    ELSE IF s # <<>> /\ s[1] = "-" /\ IsDigits(Tail(s))
         THEN [raised |-> FALSE, value |-> 0 - DigitsValue(Tail(s))]
         ELSE [raised |-> TRUE, value |-> 0]

\* A defect of the kind the getter could have: the default of the COLUMNS
\* lookup is missing, so an unset COLUMNS yields the queried 0.
fullwidth_without_default(tw, ts, cols) ==
    IF tw.set THEN [result |-> "ok", value |-> tw.value]
    ELSE IF ts.kind = "fatal" THEN [result |-> "KeyboardInterrupt", value |-> 0]
    ELSE LET w == IF ts.kind = "ok" THEN ts.cols ELSE 0
         IN IF w = 0
            THEN IF cols.set
                 THEN LET n == ParseInt(cols.text)
                      IN IF n.raised THEN [result |-> "ValueError", value |-> 0]
                         ELSE [result |-> "ok", value |-> n.value]
                 ELSE [result |-> "ok", value |-> w]
            ELSE IF w < MinReliableWidth
                 THEN [result |-> "ok", value |-> SaneWidth]
                 ELSE [result |-> "ok", value |-> w]

\* A defect of the kind the getter could have: the clamp compares with <=.
fullwidth_clamps_inclusive(tw, ts, cols) ==
    IF tw.set THEN [result |-> "ok", value |-> tw.value]
    ELSE IF ts.kind = "fatal" THEN [result |-> "KeyboardInterrupt", value |-> 0]
    ELSE LET w == IF ts.kind = "ok" THEN ts.cols ELSE 0
         IN IF w = 0
            THEN IF cols.set
                 THEN LET n == ParseInt(cols.text)
                      IN IF n.raised THEN [result |-> "ValueError", value |-> 0]
                         ELSE [result |-> "ok", value |-> n.value]
                 ELSE [result |-> "ok", value |-> DefaultColumns]
            ELSE IF w <= MinReliableWidth
                 THEN [result |-> "ok", value |-> SaneWidth]
                 ELSE [result |-> "ok", value |-> w]

\* the getter of TerminalWriter.fullwidth
fullwidth(tw, ts, cols) ==
    IF tw.set THEN [result |-> "ok", value |-> tw.value]
    ELSE IF ts.kind = "fatal"
    THEN \* except py.builtin._sysex: raise
         [result |-> "KeyboardInterrupt", value |-> 0]
    ELSE LET w == IF ts.kind = "ok" THEN ts.cols ELSE 0
         IN IF w = 0
            THEN IF cols.set
                 THEN LET n == ParseInt(cols.text)
                      IN IF n.raised THEN [result |-> "ValueError", value |-> 0]
                         ELSE [result |-> "ok", value |-> n.value]
                 ELSE [result |-> "ok", value |-> DefaultColumns]
            ELSE IF w < MinReliableWidth
                 THEN [result |-> "ok", value |-> SaneWidth]
                 ELSE [result |-> "ok", value |-> w]

-----------------------------------------------------------------------------
(* sep.                                                                    *)

\* sepchar * n
Repeat(s, n) ==
    IF n <= 0 \/ s = <<>> THEN <<>>
    ELSE [i \in 1..(n * Len(s)) |-> s[((i - 1) % Len(s)) + 1]]

RECURSIVE rstrip(_)
\* sepchar.rstrip()
rstrip(s) ==
    IF s = <<>> THEN <<>>
    ELSE IF s[Len(s)] \in {" ", "LF"} THEN rstrip(SubSeq(s, 1, Len(s) - 1))
         ELSE s

Max(a, b) == IF a >= b THEN a ELSE b

\* A defect of the kind sep could have: the extra separator is never added.
rule_line_without_extra(sepchar, title, fw) ==
    IF title.given
    THEN LET N == Max((fw - Len(title.text) - 2) \div (2 * Len(sepchar)), 1)
             fill == Repeat(sepchar, N)
         IN fill \o <<" ">> \o title.text \o <<" ">> \o fill
    ELSE Repeat(sepchar, fw \div Len(sepchar))

\* the line sep draws for a non-empty sepchar and the width fw
rule_line(sepchar, title, fw) ==
    LET base ==
            IF title.given
            THEN LET N == Max((fw - Len(title.text) - 2) \div (2 * Len(sepchar)), 1)
                     fill == Repeat(sepchar, N)
                 IN fill \o <<" ">> \o title.text \o <<" ">> \o fill
            ELSE Repeat(sepchar, fw \div Len(sepchar))
    IN IF Len(base) + Len(rstrip(sepchar)) <= fw
       THEN base \o rstrip(sepchar)
       ELSE base

\* TerminalWriter.sep(sepchar, title, fullwidth, **kw): arg is the fullwidth
\* argument ([given, value]), beh1 and beh2 what the sink does in the two
\* write calls
sep(cl, hm, encoding, win, tw, ts, cols, sepchar, title, arg, kw, beh1, beh2) ==
    LET got == IF arg.given THEN [result |-> "ok", value |-> arg.value]
               ELSE fullwidth(tw, ts, cols)
        fw == IF win THEN got.value - 1 ELSE got.value
        line == rule_line(sepchar, title, fw)
        w1 == write(cl, hm, encoding, line, kw, beh1)
        w2 == write([chars |-> w1.chars, width |-> w1.width], hm, encoding,
                    <<"LF">>, <<>>, beh2)
    IN IF got.result # "ok"
       THEN [chars |-> cl.chars, width |-> cl.width, result |-> got.result,
             log |-> <<>>, drawn |-> FALSE, line |-> <<>>, fw |-> 0]
       ELSE IF sepchar = <<>>
       THEN [chars |-> cl.chars, width |-> cl.width, result |-> "ZeroDivisionError",
             log |-> <<>>, drawn |-> FALSE, line |-> <<>>, fw |-> fw]
       ELSE IF w1.result # "ok"
       THEN [chars |-> w1.chars, width |-> w1.width, result |-> w1.result,
             log |-> w1.log, drawn |-> TRUE, line |-> line, fw |-> fw]
       ELSE [chars |-> w2.chars, width |-> w2.width, result |-> w2.result,
             log |-> w1.log \o w2.log, drawn |-> TRUE, line |-> line, fw |-> fw]

-----------------------------------------------------------------------------
(* The state machine.                                                      *)

NoTitle == [given |-> FALSE, text |-> <<>>]
NoArg == [given |-> FALSE, value |-> 0]

\* The record of a call: op names it, the other fields hold its arguments
\* and what it did.
NoCall ==
    [op |-> "init", msg |-> <<>>, kw |-> <<>>, result |-> "ok", log |-> <<>>,
     value |-> 0, sepchar |-> <<>>, title |-> NoTitle, arg |-> NoArg,
     fw |-> 0, line |-> <<>>, drawn |-> FALSE,
     beh |-> [direct |-> "ok", raw |-> "ok"]]

LastNewline(p) == CHOOSE k \in 1..Len(p) : p[k] = "LF" /\ \A j \in (k + 1)..Len(p) : p[j] # "LF"

RECURSIVE TailPieces(_)
\* The pieces of the messages ps that follow the last line terminator of
\* their concatenation (empty pieces left out).
TailPieces(ps) ==
    IF ps = <<>> THEN <<>>
    ELSE LET p == ps[Len(ps)]
             rest == SubSeq(ps, 1, Len(ps) - 1)
         IN IF HasNewline(p)
            THEN IF LastNewline(p) = Len(p) THEN <<>>
                 ELSE <<SubSeq(p, LastNewline(p) + 1, Len(p))>>
            ELSE IF p = <<>> THEN TailPieces(rest)
                 ELSE Append(TailPieces(rest), p)

\* __init__: the counters start at 0; no override is stored
InitWriter ==
    /\ chars = 0
    /\ width = 0
    /\ terminal_width = [set |-> FALSE, value |-> 0]
    /\ last = NoCall
    /\ pieces = <<>>
    /\ allok = TRUE

\* write(msg, **kw), with beh what the sink does
Write(msg, kw, beh) ==
    \E r \in {write([chars |-> chars, width |-> width], hasmarkup, sinkEncoding,
                    msg, kw, beh)} :
       /\ beh.direct = "UnicodeEncodeError" => ~IsAscii(msg)
       /\ r.chars <= MaxChars
       /\ chars' = r.chars
       /\ width' = r.width
       /\ last' = [NoCall EXCEPT !.op = "write", !.msg = msg, !.kw = kw,
                                 !.beh = beh,
                                 !.result = r.result, !.log = r.log]
       /\ pieces' = IF allok /\ r.result = "ok"
                    THEN TailPieces(Append(pieces, msg))
                    ELSE <<>>
       /\ allok' = (allok /\ r.result = "ok")
       /\ UNCHANGED <<isWindows, hasmarkup, sinkEncoding, terminal_width,
                      columns, termsize>>

\* sep(sepchar, title, fullwidth, **kw)
Sep(sepchar, title, arg, kw, beh1, beh2) ==
    \E r \in {sep([chars |-> chars, width |-> width], hasmarkup, sinkEncoding,
                  isWindows, terminal_width, termsize, columns,
                  sepchar, title, arg, kw, beh1, beh2)} :
       /\ r.chars <= MaxChars
       /\ chars' = r.chars
       /\ width' = r.width
       /\ last' = [NoCall EXCEPT !.op = "sep", !.sepchar = sepchar,
                                 !.title = title, !.arg = arg, !.kw = kw,
                                 !.result = r.result, !.log = r.log,
                                 !.fw = r.fw, !.line = r.line,
                                 !.drawn = r.drawn]
       /\ pieces' = IF allok /\ r.result = "ok"
                    THEN TailPieces(pieces \o <<r.line, <<"LF">> >>)
                    ELSE <<>>
       /\ allok' = (allok /\ r.result = "ok")
       /\ UNCHANGED <<isWindows, hasmarkup, sinkEncoding, terminal_width,
                      columns, termsize>>

\* reading tw.fullwidth
GetFullwidth ==
    LET r == fullwidth(terminal_width, termsize, columns)
    IN /\ last' = [NoCall EXCEPT !.op = "get", !.result = r.result,
                                 !.value = r.value]
       /\ allok' = (allok /\ r.result = "ok")
       /\ UNCHANGED <<isWindows, hasmarkup, sinkEncoding, chars, width,
                      terminal_width, columns, termsize, pieces>>

\* tw.fullwidth = value
SetFullwidth(value) ==
    /\ terminal_width' = [set |-> TRUE, value |-> value]
    /\ last' = [NoCall EXCEPT !.op = "set", !.value = value]
    /\ UNCHANGED <<isWindows, hasmarkup, sinkEncoding, chars, width, columns,
                   termsize, pieces, allok>>

\* the terminal is resized, closed or replaced
Resize(ts) ==
    /\ ts # termsize
    /\ termsize' = ts
    /\ last' = [NoCall EXCEPT !.op = "resize"]
    /\ UNCHANGED <<isWindows, hasmarkup, sinkEncoding, chars, width,
                   terminal_width, columns, pieces, allok>>

\* environ['COLUMNS'] is set or deleted
SetColumns(c) ==
    /\ c # columns
    /\ columns' = c
    /\ last' = [NoCall EXCEPT !.op = "environ"]
    /\ UNCHANGED <<isWindows, hasmarkup, sinkEncoding, chars, width,
                   terminal_width, termsize, pieces, allok>>

Flag(name, value) == [name |-> name, value |-> value]
SinkOk == [direct |-> "ok", raw |-> "ok"]
Unset == [set |-> FALSE, text |-> <<>>]
Columns(text) == [set |-> TRUE, text |-> text]
Terminal(cols) == [kind |-> "ok", cols |-> cols]

-----------------------------------------------------------------------------
(* SpecLine: sequences of write calls over text that has a narrow, a       *)
(* combining, a wide character and the line terminator.                    *)

LineChars == {"e", "acute", "han", "LF"}

LineMsgs == UNION {[1..n -> LineChars] : n \in 0..MaxMsgLen}

LineBehaviours ==
    {SinkOk, [direct |-> "UnicodeEncodeError", raw |-> "ok"],
     [direct |-> "IOError", raw |-> "ok"]}

InitLine ==
    /\ InitWriter
    /\ isWindows = FALSE
    /\ hasmarkup = FALSE
    /\ sinkEncoding = "utf-8"
    /\ columns = Unset
    /\ termsize = Terminal(80)

WriteDirect == \E msg \in LineMsgs : Write(msg, <<>>, SinkOk)

WriteFailing ==
    \E msg \in LineMsgs, beh \in LineBehaviours \ {SinkOk} : Write(msg, <<>>, beh)

NextLine == WriteDirect \/ WriteFailing

SpecLine == InitLine /\ [][NextLine]_vars

RECURSIVE Concat(_)
Concat(ps) == IF ps = <<>> THEN <<>> ELSE Head(ps) \o Concat(Tail(ps))

RECURSIVE SumPieceWidths(_)
SumPieceWidths(ps) ==
    IF ps = <<>> THEN 0 ELSE display_width(Head(ps)) + SumPieceWidths(Tail(ps))

\* C1 as stated: after successful write calls, chars is the number of
\* characters and width the display width, wide characters counting 2 and
\* every other character 1, of what follows the last line terminator in the
\* concatenation of the messages.
C1_TailOfConcatenation ==
    allok => /\ chars = Len(Concat(pieces))
             /\ width = SumWidths(Concat(pieces))

\* C1 as the code has it: after successful write calls, chars is the number
\* of characters of what follows the last line terminator, and width is the
\* sum, over the pieces the calls added to it, of the display width of each
\* piece in composed (NFC) form.
C1_TailPieceByPiece ==
    allok => /\ chars = Len(Concat(pieces))
             /\ width = SumPieceWidths(pieces)

\* a wide character, then a decomposed pair in one message: 3 characters,
\* 3 columns
C1_Witness ==
    /\ allok
    /\ last.op = "write"
    /\ pieces = << <<"han">>, <<"e", "acute">> >>
    /\ chars = 3
    /\ width = 3

-----------------------------------------------------------------------------
(* SpecMarkup: single write calls with style flags, on every kind of       *)
(* writer and sink.                                                        *)

MarkupMsgs == {<<>>, <<"e">>, <<"eacute">>, <<"e", "LF">>}

MarkupKws ==
    {<<Flag("bold", TRUE)>>, <<Flag("bold", FALSE)>>,
     <<Flag("fuchsia", TRUE)>>, <<Flag("fuchsia", FALSE)>>,
     <<Flag("bold", TRUE), Flag("red", TRUE)>>,
     <<Flag("red", TRUE), Flag("bold", TRUE)>>,
     <<Flag("Blue", FALSE), Flag("bold", TRUE)>>,
     <<Flag("bold", TRUE), Flag("fuchsia", FALSE)>>,
     <<Flag("fuchsia", TRUE), Flag("bold", TRUE)>>}

InitMarkup ==
    /\ InitWriter
    /\ isWindows = FALSE
    /\ hasmarkup \in BOOLEAN
    /\ sinkEncoding \in {"none", "ascii", "utf-8"}
    /\ columns = Unset
    /\ termsize = Terminal(80)

WritePlain ==
    \E msg \in MarkupMsgs, beh \in SinkBehaviours : Write(msg, <<>>, beh)

WriteStyled ==
    \E msg \in MarkupMsgs, kw \in MarkupKws, beh \in SinkBehaviours :
        Write(msg, kw, beh)

NextMarkup == WritePlain \/ WriteStyled

SpecMarkup == InitMarkup /\ [][NextMarkup]_vars

\* The names of the style table, as the documentation lists them.
KnownFlags ==
    {"black", "red", "green", "yellow", "blue", "purple", "cyan", "white",
     "Black", "Red", "Green", "Yellow", "Blue", "Purple", "Cyan", "White",
     "bold", "light", "blink", "invert"}

HasUnknownFlag(kw) == \E i \in 1..Len(kw) : kw[i].name \notin KnownFlags
HasTruthyFlag(kw) == \E i \in 1..Len(kw) : kw[i].value

\* C2 as stated: a write of a non-empty message with a flag whose name is not
\* in the table raises, whatever the writer's has-markup flag.
C2_UnknownFlagAlwaysRaises ==
    (last.op = "write" /\ last.msg # <<>> /\ HasUnknownFlag(last.kw))
        => last.result = "ValueError"

\* C2 as the code has it: on a writer with markup enabled, a write of a
\* non-empty message with a flag whose name is not in the table raises,
\* whatever the flag's truth value.
C2_UnknownFlagRaisesWithMarkup ==
    (last.op = "write" /\ last.msg # <<>> /\ HasUnknownFlag(last.kw) /\ hasmarkup)
        => last.result = "ValueError"

C2_Witness ==
    /\ hasmarkup
    /\ last.op = "write"
    /\ last.kw = <<Flag("bold", TRUE), Flag("fuchsia", FALSE)>>
    /\ last.result = "ValueError"

SomeWriteDone(log) == \E i \in 1..Len(log) : log[i].ev = "write" /\ log[i].ok

\* C3: a write whose direct sink write fails with an encoding error (and
\* whose sink raises nothing but encoding errors) returns normally with a
\* rendering of the message written; it raises only out of the final
\* escaped write, a write the sink is never asked for here.
C3_FallbackWritesSomething ==
    (last.op = "write" /\ last.beh.direct = "UnicodeEncodeError"
                       /\ last.beh.raw # "TypeError")
        => (last.result = "ok" /\ SomeWriteDone(last.log))

EscSeq(name) ==
    CASE name = "bold" -> <<"ESC", "[", "1", "m">>
      [] name = "red" -> <<"ESC", "[", "3", "1", "m">>
      [] name = "Blue" -> <<"ESC", "[", "4", "4", "m">>

RECURSIVE TruthyPrefix(_)
TruthyPrefix(kw) ==
    IF kw = <<>> THEN <<>>
    ELSE (IF Head(kw).value THEN EscSeq(Head(kw).name) ELSE <<>>)
             \o TruthyPrefix(Tail(kw))

\* C6: a write of a non-empty message with known flags sends the sink
\* ESC[<code>m for each truthy flag, the message and ESC[0m when markup is
\* enabled and a flag is truthy, and the plain message otherwise.
C6_MarkupBytes ==
    (last.op = "write" /\ last.msg # <<>> /\ ~HasUnknownFlag(last.kw))
        => /\ last.log # <<>>
           /\ last.log[1].ev = "write"
           /\ last.log[1].kind = "text"
           /\ last.log[1].text =
                  IF hasmarkup /\ HasTruthyFlag(last.kw)
                  THEN TruthyPrefix(last.kw) \o last.msg \o <<"ESC", "[", "0", "m">>
                  ELSE last.msg

C6_Witness ==
    /\ last.op = "write"
    /\ last.result = "ok"
    /\ last.kw = <<Flag("bold", TRUE)>>
    /\ last.log # <<>>
    /\ last.log[1].text = <<"ESC", "[", "1", "m", "e", "ESC", "[", "0", "m">>

Flushes(log) == {i \in 1..Len(log) : log[i].ev = "flush"}

C9_FlushedOnce ==
    (last.op = "write" /\ last.result = "ok" /\ SomeWriteDone(last.log))
        => /\ Flushes(last.log) = {Len(last.log)}
           /\ last.log[Len(last.log) - 1].ev = "write"
           /\ last.log[Len(last.log) - 1].ok

C9_EmptyIsNoOp ==
    (last'.op = "write" /\ last'.msg = <<>>)
        => /\ last'.log = <<>>
           /\ last'.result = "ok"
           /\ chars' = chars
           /\ width' = width

\* C9: a write that returns normally after sending data has flushed the
\* sink exactly once, after its last sink write; a write of an empty message
\* writes nothing, flushes nothing and leaves the current line as it was.
C9_FlushAfterWrite == []C9_FlushedOnce /\ [][C9_EmptyIsNoOp]_vars

\* the encoded-bytes path: text write refused, bytes written, one flush
C9_Witness ==
    /\ last.op = "write"
    /\ last.result = "ok"
    /\ Len(last.log) = 3
    /\ last.log[2].kind = "bytes"
    /\ last.log[2].ok
    /\ last.log[3].ev = "flush"

\* C10: a write rejected for an unknown flag writes nothing, flushes nothing
\* and leaves current_line.chars and current_line.width as they were.
C10_RejectedWriteHasNoEffect ==
    [][(last'.op = "write" /\ last'.result = "ValueError")
           => /\ last'.log = <<>>
              /\ chars' = chars
              /\ width' = width]_vars

-----------------------------------------------------------------------------
(* SpecWidth: the fullwidth property under overrides, terminal sizes and   *)
(* COLUMNS values, with write and sep calls in between.                    *)

WidthValues ==
    {0, 1, MinReliableWidth - 1, MinReliableWidth, MinReliableWidth + 1, 100}

TermSizes ==
    {[kind |-> "error", cols |-> 0], [kind |-> "fatal", cols |-> 0]}
        \cup {Terminal(c) : c \in WidthValues}

ColumnsValues ==
    {Unset, Columns(<<"0">>), Columns(<<"7">>), Columns(<<"1", "2", "0">>),
     Columns(<<"-", "5">>), Columns(<<"x">>)}

InitWidth ==
    /\ InitWriter
    /\ isWindows = FALSE
    /\ hasmarkup = FALSE
    /\ sinkEncoding = "utf-8"
    /\ columns = Unset
    /\ termsize = Terminal(80)

SetOverride == \E v \in WidthValues : SetFullwidth(v)

TerminalChanges == \E ts \in TermSizes : Resize(ts)

EnvironChanges == \E c \in ColumnsValues : SetColumns(c)

WriteBetween == \E msg \in {<<"e">>, <<"LF">>} : Write(msg, <<>>, SinkOk)

SepBetween == Sep(<<"-">>, NoTitle, NoArg, <<>>, SinkOk, SinkOk)

NextWidth ==
    \/ GetFullwidth
    \/ SetOverride
    \/ TerminalChanges
    \/ EnvironChanges
    \/ WriteBetween
    \/ SepBetween

SpecWidth == InitWidth /\ [][NextWidth]_vars

\* the column count the getter works from: 0 when the query raised
Queried == IF termsize.kind = "ok" THEN termsize.cols ELSE 0

\* C7 as stated: every read of fullwidth yields an integer >= 1.
C7_AlwaysPositive ==
    (last.op = "get" /\ last.result = "ok") => last.value >= 1

PositiveDecimal(s) == IsDigits(s) /\ \E i \in 1..Len(s) : s[i] # "0"

\* C7 as the code has it: a read of fullwidth yields an integer >= 1 when
\* the stored override, if there is one, is >= 1 and COLUMNS, if it is set,
\* holds a positive integer.
C7_PositiveFromPositive ==
    (/\ last.op = "get"
     /\ last.result = "ok"
     /\ terminal_width.set => terminal_width.value >= 1
     /\ columns.set => PositiveDecimal(columns.text))
        => last.value >= 1

\* no override, the query yields 0 and COLUMNS is 7
C7_Witness ==
    /\ last.op = "get"
    /\ ~terminal_width.set
    /\ termsize = Terminal(0)
    /\ columns = Columns(<<"7">>)
    /\ last.value = 7

ColumnsInt(text) ==
    CASE text = <<"0">> -> 0
      [] text = <<"7">> -> 7
      [] text = <<"1", "2", "0">> -> 120
      [] text = <<"-", "5">> -> 0 - 5

C8_Covered ==
    \/ terminal_width.set
    \/ /\ termsize.kind # "fatal"
       /\ (Queried = 0 /\ columns.set) => columns.text # <<"x">>

C8_Expected ==
    IF terminal_width.set THEN terminal_width.value
    ELSE IF Queried = 0
         THEN IF columns.set THEN ColumnsInt(columns.text) ELSE 80
         ELSE IF Queried < 40 THEN 80 ELSE Queried

C8_GetterValue ==
    (last.op = "get" /\ C8_Covered)
        => (last.result = "ok" /\ last.value = C8_Expected)

C8_OverrideKept ==
    terminal_width' # terminal_width
        => /\ last'.op = "set"
           /\ terminal_width' = [set |-> TRUE, value |-> last'.value]

\* C8: the getter returns the stored override once the setter has been
\* called, whatever happens in between; otherwise, with w the queried column
\* count, COLUMNS as an integer or 80 when w = 0, 80 when 0 < w < 40, and w
\* when w >= 40.
C8_GetterPolicy == []C8_GetterValue /\ [][C8_OverrideKept]_vars

\* the override 1 is returned on a 100-column terminal, after a sep call
C8_Witness ==
    /\ last.op = "get"
    /\ terminal_width = [set |-> TRUE, value |-> 1]
    /\ termsize = Terminal(100)
    /\ columns = Columns(<<"7">>)
    /\ last.value = 1

-----------------------------------------------------------------------------
(* SpecSep: sep calls over separators, titles and widths.                  *)

SepChars == {<<>>, <<"-">>, <<"_", " ">>, <<"=", "=">>}

Titles == {[given |-> TRUE, text |-> [i \in 1..n |-> "X"]] : n \in 0..MaxTitle}

SepArgs == {NoArg} \cup {[given |-> TRUE, value |-> v] : v \in 0..MaxWidth}

InitSep ==
    /\ InitWriter
    /\ isWindows \in BOOLEAN
    /\ hasmarkup = TRUE
    /\ sinkEncoding = "utf-8"
    /\ columns = Columns(<<"9">>)
    /\ termsize = Terminal(0)

SepRule ==
    \E sepchar \in SepChars, arg \in SepArgs :
        Sep(sepchar, NoTitle, arg, <<>>, SinkOk, SinkOk)

SepTitled ==
    \E sepchar \in SepChars, title \in Titles, arg \in SepArgs :
        Sep(sepchar, title, arg, <<>>, SinkOk, SinkOk)

SepStyled ==
    \E title \in {NoTitle, [given |-> TRUE, text |-> <<"X">>]}, arg \in SepArgs :
        Sep(<<"-">>, title, arg, <<Flag("bold", TRUE)>>, SinkOk, SinkOk)

SetWidth == SetFullwidth(7)

NextSep == SepRule \/ SepTitled \/ SepStyled \/ SetWidth

SpecSep == InitSep /\ [][NextSep]_vars

\* C4: for a non-empty separator and a positive width, the rule line is no
\* longer than the width, with or without a title of any length.
C4_LineFitsWidth ==
    (last.op = "sep" /\ last.drawn /\ last.sepchar # <<>> /\ last.fw > 0)
        => Len(last.line) <= last.fw

RECURSIVE Times(_, _)
Times(s, n) == IF n <= 0 THEN <<>> ELSE s \o Times(s, n - 1)

C5_N == Max((last.fw - Len(last.title.text) - 2) \div (2 * Len(last.sepchar)), 1)

C5_Symmetric ==
    Times(last.sepchar, C5_N) \o <<" ">> \o last.title.text \o <<" ">>
        \o Times(last.sepchar, C5_N)

C5_Trimmed == IF last.sepchar = <<"_", " ">> THEN <<"_">> ELSE last.sepchar

\* C5 as stated: with a title the line is exactly fill, space, title, space,
\* fill, the fill being the separator N times on both sides.
C5_LineIsSymmetric ==
    (last.op = "sep" /\ last.drawn /\ last.title.given)
        => last.line = C5_Symmetric

\* C5 as the code has it: with a title the line is fill, space, title,
\* space, fill, followed by one more right-stripped separator when the line
\* with it is no longer than the width.
C5_LineIsSymmetricPlusExtra ==
    (last.op = "sep" /\ last.drawn /\ last.title.given)
        => last.line =
               IF Len(C5_Symmetric) + Len(C5_Trimmed) <= last.fw
               THEN C5_Symmetric \o C5_Trimmed
               ELSE C5_Symmetric

\* sep("-", title="X", fullwidth=10) off Windows draws "--- X ----"
C5_Witness ==
    /\ last.op = "sep"
    /\ last.result = "ok"
    /\ ~isWindows
    /\ last.sepchar = <<"-">>
    /\ last.title = [given |-> TRUE, text |-> <<"X">>]
    /\ last.arg = [given |-> TRUE, value |-> 10]
    /\ last.line = <<"-", "-", "-", " ", "X", " ", "-", "-", "-", "-">>

====
